---- MODULE Spec2Model ----
(***************************************************************************)
(* Model of src/main.c, the entry point of systemd (2010): resolution of   *)
(* the default unit and the log settings from /proc/cmdline and from the   *)
(* process arguments, followed by the bootstrap sequence of main().        *)
(*                                                                         *)
(* C strings are sequences of one-character strings, so that startswith,   *)
(* streq and pointer arithmetic (word + 15) are computed as the code       *)
(* computes them.  /proc/cmdline is held as the sequence of words that     *)
(* FOREACH_WORD_QUOTED yields for its first line.                          *)
(***************************************************************************)
EXTENDS Integers, Sequences, FiniteSets, TLC

(***************************************************************************)
(* Bounds of the model.                                                    *)
(***************************************************************************)
MaxWords == 2
MaxArgs == 2
MaxOrderWords == 3

(***************************************************************************)
(* errno values; the code only tests r < 0.                                *)
(***************************************************************************)
ENOMEM == 12
EINVAL == 22

(***************************************************************************)
(* String constants.                                                       *)
(***************************************************************************)
PREFIX_DEFAULT == <<"s", "y", "s", "t", "e", "m", "d", ".", "d", "e", "f", "a", "u", "l", "t", "=">>
PREFIX_LOG_TARGET == <<"s", "y", "s", "t", "e", "m", "d", ".", "l", "o", "g", "_", "t", "a", "r", "g", "e", "t", "=">>
PREFIX_LOG_LEVEL == <<"s", "y", "s", "t", "e", "m", "d", ".", "l", "o", "g", "_", "l", "e", "v", "e", "l", "=">>

SPECIAL_DEFAULT_TARGET == <<"d", "e", "f", "a", "u", "l", "t", ".", "t", "a", "r", "g", "e", "t">>
SPECIAL_RUNLEVEL1_TARGET == <<"r", "u", "n", "l", "e", "v", "e", "l", "1", ".", "t", "a", "r", "g", "e", "t">>
SPECIAL_RUNLEVEL2_TARGET == <<"r", "u", "n", "l", "e", "v", "e", "l", "2", ".", "t", "a", "r", "g", "e", "t">>
SPECIAL_RUNLEVEL3_TARGET == <<"r", "u", "n", "l", "e", "v", "e", "l", "3", ".", "t", "a", "r", "g", "e", "t">>
SPECIAL_RUNLEVEL4_TARGET == <<"r", "u", "n", "l", "e", "v", "e", "l", "4", ".", "t", "a", "r", "g", "e", "t">>
SPECIAL_RUNLEVEL5_TARGET == <<"r", "u", "n", "l", "e", "v", "e", "l", "5", ".", "t", "a", "r", "g", "e", "t">>

\* static const char * const rlmap[]: key, target, key, target, ...
rlmap ==
    << <<"s", "i", "n", "g", "l", "e">>, SPECIAL_RUNLEVEL1_TARGET,
       <<"-", "s">>,                     SPECIAL_RUNLEVEL1_TARGET,
       <<"s">>,                          SPECIAL_RUNLEVEL1_TARGET,
       <<"S">>,                          SPECIAL_RUNLEVEL1_TARGET,
       <<"1">>,                          SPECIAL_RUNLEVEL1_TARGET,
       <<"2">>,                          SPECIAL_RUNLEVEL2_TARGET,
       <<"3">>,                          SPECIAL_RUNLEVEL3_TARGET,
       <<"4">>,                          SPECIAL_RUNLEVEL4_TARGET,
       <<"5">>,                          SPECIAL_RUNLEVEL5_TARGET >>

\* ELEMENTSOF(rlmap)
ELEMENTSOF_rlmap == Len(rlmap)

\* static const struct option options[] of parse_argv: name, has_arg, val
options ==
    << [name |-> <<"l", "o", "g", "-", "l", "e", "v", "e", "l">>,      has_arg |-> TRUE,  val |-> "ARG_LOG_LEVEL"],
       [name |-> <<"l", "o", "g", "-", "t", "a", "r", "g", "e", "t">>, has_arg |-> TRUE,  val |-> "ARG_LOG_TARGET"],
       [name |-> <<"d", "e", "f", "a", "u", "l", "t">>,                has_arg |-> TRUE,  val |-> "ARG_DEFAULT"],
       [name |-> <<"h", "e", "l", "p">>,                               has_arg |-> FALSE, val |-> "h"] >>

\* Names log_set_max_level_from_string() and log_set_target_from_string() accept.
LogLevelNames == { <<"d", "e", "b", "u", "g">>, <<"i", "n", "f", "o">> }
LogTargetNames == { <<"c", "o", "n", "s", "o", "l", "e">>, <<"s", "y", "s", "l", "o", "g">>, <<"k", "m", "s", "g">> }

\* A null string pointer, a pointer whose memory was freed, and a log setting
\* nobody set yet: one-element sequences no C string equals.
NULL == <<"(null)">>
FREED == <<"(freed)">>
UNSET == <<"(unset)">>

(***************************************************************************)
(* String helpers.                                                         *)
(***************************************************************************)
startswith(s, prefix) ==
    /\ Len(s) >= Len(prefix)
    /\ SubSeq(s, 1, Len(prefix)) = prefix

streq(a, b) == a = b

\* The C expression  s + n  for a string s of at least n characters.
PtrAdd(s, n) == SubSeq(s, n + 1, Len(s))

(***************************************************************************)
(* log.c: the two setters main.c calls.  A name outside the table is       *)
(* rejected with a negative return and leaves the setting alone.           *)
(***************************************************************************)
log_set_max_level_from_string(e, cur) ==
    IF e \in LogLevelNames
    THEN [r |-> 0, value |-> e]
    ELSE [r |-> -1, value |-> cur]

log_set_target_from_string(e, cur) ==
    IF e \in LogTargetNames
    THEN [r |-> 0, value |-> e]
    ELSE [r |-> -1, value |-> cur]

\* Mutant: an empty name is refused and the old value kept.
set_default_unit_refuse_empty(u, strdup_ok, du) ==
    IF ~strdup_ok
    THEN [r |-> -ENOMEM, default_unit |-> du]
    ELSE IF u = <<>> THEN [r |-> 0, default_unit |-> du]
    ELSE [r |-> 0, default_unit |-> u]

\* Mutant: once the compiled-in name has been replaced, the name stays.
set_default_unit_first_override_wins(u, strdup_ok, du) ==
    IF ~strdup_ok
    THEN [r |-> -ENOMEM, default_unit |-> du]
    ELSE IF du \notin {NULL, SPECIAL_DEFAULT_TARGET}
    THEN [r |-> 0, default_unit |-> du]
    ELSE [r |-> 0, default_unit |-> u]

\* Mutant: the new name is added to the old one instead of replacing it.
set_default_unit_appends(u, strdup_ok, du) ==
    IF ~strdup_ok
    THEN [r |-> -ENOMEM, default_unit |-> du]
    ELSE [r |-> 0, default_unit |-> du \o u]

(***************************************************************************)
(* set_default_unit(u): strdup, then replace default_unit.  strdup_ok is   *)
(* the outcome of the allocation; du is default_unit before the call.      *)
(***************************************************************************)
set_default_unit(u, strdup_ok, du) ==
    IF ~strdup_ok
    THEN [r |-> -ENOMEM, default_unit |-> du]
    ELSE [r |-> 0, default_unit |-> u]

\* Mutant: startswith in place of streq.
RECURSIVE rlmap_find_startswith(_, _)
rlmap_find_startswith(word, i) ==
    IF ~(i < ELEMENTSOF_rlmap) THEN -1
    ELSE IF startswith(word, rlmap[i + 1]) THEN i
    ELSE rlmap_find_startswith(word, i + 2)

\* for (i = 0; i < ELEMENTSOF(rlmap); i += 2) if (streq(word, rlmap[i])) ...
\* The index of the first key equal to word (0-based, as in the code), or -1.
RECURSIVE rlmap_find(_, _)
rlmap_find(word, i) ==
    IF ~(i < ELEMENTSOF_rlmap) THEN -1
    ELSE IF streq(word, rlmap[i + 1]) THEN i
    ELSE rlmap_find(word, i + 2)

\* Mutant: the result of the log setters is returned, so that a value that
\* does not parse is fatal.
parse_proc_cmdline_word_log_fatal(word, strdup_ok, cfg) ==
    IF startswith(word, PREFIX_DEFAULT) THEN
        LET s == set_default_unit(PtrAdd(word, 15), strdup_ok, cfg.default_unit)
        IN  [cfg EXCEPT !.default_unit = s.default_unit] @@ [r |-> s.r]
    ELSE IF startswith(word, PREFIX_LOG_TARGET) THEN
        LET s == log_set_target_from_string(PtrAdd(word, 19), cfg.log_target)
        IN  [cfg EXCEPT !.log_target = s.value] @@ [r |-> s.r]
    ELSE IF startswith(word, PREFIX_LOG_LEVEL) THEN
        LET s == log_set_max_level_from_string(PtrAdd(word, 18), cfg.log_max_level)
        IN  [cfg EXCEPT !.log_max_level = s.value] @@ [r |-> s.r]
    ELSE
        LET i == rlmap_find(word, 0)
        IN  IF i >= 0
            THEN LET s == set_default_unit(rlmap[i + 2], strdup_ok, cfg.default_unit)
                 IN  [cfg EXCEPT !.default_unit = s.default_unit] @@ [r |-> s.r]
            ELSE cfg @@ [r |-> 0]

\* Mutant: a word nothing matches is an error.
parse_proc_cmdline_word_unknown_fatal(word, strdup_ok, cfg) ==
    IF startswith(word, PREFIX_DEFAULT) THEN
        LET s == set_default_unit(PtrAdd(word, 15), strdup_ok, cfg.default_unit)
        IN  [cfg EXCEPT !.default_unit = s.default_unit] @@ [r |-> s.r]
    ELSE IF startswith(word, PREFIX_LOG_TARGET) THEN
        LET s == log_set_target_from_string(PtrAdd(word, 19), cfg.log_target)
        IN  [cfg EXCEPT !.log_target = s.value] @@ [r |-> 0]
    ELSE IF startswith(word, PREFIX_LOG_LEVEL) THEN
        LET s == log_set_max_level_from_string(PtrAdd(word, 18), cfg.log_max_level)
        IN  [cfg EXCEPT !.log_max_level = s.value] @@ [r |-> 0]
    ELSE
        LET i == rlmap_find(word, 0)
        IN  IF i >= 0
            THEN LET s == set_default_unit(rlmap[i + 2], strdup_ok, cfg.default_unit)
                 IN  [cfg EXCEPT !.default_unit = s.default_unit] @@ [r |-> s.r]
            ELSE cfg @@ [r |-> -EINVAL]

(***************************************************************************)
(* parse_proc_cmdline_word(word).  cfg is the configuration before the     *)
(* call: [default_unit, log_target, log_max_level]; the result adds r.     *)
(***************************************************************************)
parse_proc_cmdline_word(word, strdup_ok, cfg) ==
    IF startswith(word, PREFIX_DEFAULT) THEN
        LET s == set_default_unit(PtrAdd(word, 15), strdup_ok, cfg.default_unit)
        IN  [cfg EXCEPT !.default_unit = s.default_unit] @@ [r |-> s.r]
    ELSE IF startswith(word, PREFIX_LOG_TARGET) THEN
        LET s == log_set_target_from_string(PtrAdd(word, 19), cfg.log_target)
        IN  [cfg EXCEPT !.log_target = s.value] @@ [r |-> 0]
    ELSE IF startswith(word, PREFIX_LOG_LEVEL) THEN
        LET s == log_set_max_level_from_string(PtrAdd(word, 18), cfg.log_max_level)
        IN  [cfg EXCEPT !.log_max_level = s.value] @@ [r |-> 0]
    ELSE
        LET i == rlmap_find(word, 0)
        IN  IF i >= 0
            THEN LET s == set_default_unit(rlmap[i + 2], strdup_ok, cfg.default_unit)
                 IN  [cfg EXCEPT !.default_unit = s.default_unit] @@ [r |-> s.r]
            ELSE cfg @@ [r |-> 0]

(***************************************************************************)
(* getopt_long(argc, argv, "h", options, NULL) as parse_argv calls it.     *)
(* args is argv without argv[0], so that C's argv[k] is args[k]; oi is     *)
(* optind, nc the position inside a cluster of short options (0: none).    *)
(* Elements that are not options are skipped and counted, which is what    *)
(* GNU getopt's permutation to the end of argv amounts to.                 *)
(***************************************************************************)
IsOptionElement(e) == Len(e) >= 2 /\ e[1] = "-"

\* The first index >= oi of an option element of args, or Len(args) + 1.
RECURSIVE NextOptionElement(_, _)
NextOptionElement(args, oi) ==
    IF oi > Len(args) THEN oi
    ELSE IF IsOptionElement(args[oi]) THEN oi
    ELSE NextOptionElement(args, oi + 1)

\* The position of the first "=" of s, or 0.
RECURSIVE IndexOfEquals(_, _)
IndexOfEquals(s, k) ==
    IF k > Len(s) THEN 0
    ELSE IF s[k] = "=" THEN k
    ELSE IndexOfEquals(s, k + 1)

\* The entry of options[] a long option name selects: an exact match, else
\* the only entry the name abbreviates; 0 when there is none or several.
LongOptionIndex(name) ==
    LET exact == {k \in 1..Len(options) : options[k].name = name}
        abbrev == {k \in 1..Len(options) : startswith(options[k].name, name)}
    IN  IF exact # {} THEN CHOOSE k \in exact : TRUE
        ELSE IF Cardinality(abbrev) = 1 THEN CHOOSE k \in abbrev : TRUE
        ELSE 0

getopt_long(args, oi, nc) ==
    IF nc > 0 THEN
        \* next character of a cluster of short options: "h" is the only one
        LET e == args[oi]
            last == nc = Len(e)
        IN  [c |-> IF e[nc] = "h" THEN "h" ELSE "?",
             optarg |-> NULL,
             optind |-> IF last THEN oi + 1 ELSE oi,
             nextchar |-> IF last THEN 0 ELSE nc + 1,
             skipped |-> 0]
    ELSE
        LET j == NextOptionElement(args, oi)
        IN  IF j > Len(args) THEN
                [c |-> "EOF", optarg |-> NULL, optind |-> j, nextchar |-> 0,
                 skipped |-> j - oi]
            ELSE IF args[j] = <<"-", "-">> THEN
                \* "--" ends the options: all that follows is positional
                [c |-> "EOF", optarg |-> NULL, optind |-> Len(args) + 1, nextchar |-> 0,
                 skipped |-> (j - oi) + (Len(args) - j)]
            ELSE IF args[j][2] = "-" THEN
                LET body == PtrAdd(args[j], 2)
                    eq == IndexOfEquals(body, 1)
                    name == IF eq = 0 THEN body ELSE SubSeq(body, 1, eq - 1)
                    k == LongOptionIndex(name)
                IN  IF k = 0 THEN
                        [c |-> "?", optarg |-> NULL, optind |-> j + 1, nextchar |-> 0,
                         skipped |-> j - oi]
                    ELSE IF ~options[k].has_arg THEN
                        [c |-> IF eq = 0 THEN options[k].val ELSE "?",
                         optarg |-> NULL, optind |-> j + 1, nextchar |-> 0,
                         skipped |-> j - oi]
                    ELSE IF eq # 0 THEN
                        [c |-> options[k].val, optarg |-> PtrAdd(body, eq),
                         optind |-> j + 1, nextchar |-> 0, skipped |-> j - oi]
                    ELSE IF j + 1 <= Len(args) THEN
                        [c |-> options[k].val, optarg |-> args[j + 1],
                         optind |-> j + 2, nextchar |-> 0, skipped |-> j - oi]
                    ELSE
                        [c |-> "?", optarg |-> NULL, optind |-> j + 1, nextchar |-> 0,
                         skipped |-> j - oi]
            ELSE
                \* a cluster of short options starts at its second character
                LET e == args[j]
                    last == Len(e) = 2
                IN  [c |-> IF e[2] = "h" THEN "h" ELSE "?",
                     optarg |-> NULL,
                     optind |-> IF last THEN j + 1 ELSE j,
                     nextchar |-> IF last THEN 0 ELSE 3,
                     skipped |-> j - oi]

(***************************************************************************)
(* Inputs: the words of /proc/cmdline and the process arguments.           *)
(***************************************************************************)
SeqsUpTo(S, n) == UNION {[1..k -> S] : k \in 0..n}

\* The words of /proc/cmdline in runs of the whole of main().
KernelWords ==
    { <<"s", "y", "s", "t", "e", "m", "d", ".", "d", "e", "f", "a", "u", "l", "t", "=", "f", "o", "o", ".", "t", "a", "r", "g", "e", "t">>,
      <<"s", "y", "s", "t", "e", "m", "d", ".", "d", "e", "f", "a", "u", "l", "t", "=">>,
      <<"s", "y", "s", "t", "e", "m", "d", ".", "l", "o", "g", "_", "l", "e", "v", "e", "l", "=", "n", "o", "t", "-", "a", "-", "l", "e", "v", "e", "l">>,
      <<"s", "y", "s", "t", "e", "m", "d", ".", "l", "o", "g", "_", "t", "a", "r", "g", "e", "t", "=", "n", "o", "t", "-", "a", "-", "t", "a", "r", "g", "e", "t">> }

\* The words of /proc/cmdline in runs of parse_proc_cmdline() alone.
CmdlineWords ==
    KernelWords \cup
    { <<"s", "y", "s", "t", "e", "m", "d", ".", "l", "o", "g", "_", "l", "e", "v", "e", "l", "=", "d", "e", "b", "u", "g">>,
      <<"s", "y", "s", "t", "e", "m", "d", ".", "l", "o", "g", "_", "t", "a", "r", "g", "e", "t", "=", "k", "m", "s", "g">>,
      <<"s", "i", "n", "g", "l", "e">>,
      <<"-", "s">>,
      <<"s">>,
      <<"S">>,
      <<"1">>,
      <<"2">>,
      <<"3">>,
      <<"4">>,
      <<"5">>,
      <<"3", "3">>,
      <<"s", "i", "n", "g", "l", "e", "1">>,
      <<"q", "u", "i", "e", "t">>,
      <<"s", "y", "s", "t", "e", "m", "d", ".", "3">> }

ArgWords ==
    { <<"-", "-", "d", "e", "f", "a", "u", "l", "t", "=", "b", "a", "r", ".", "t", "a", "r", "g", "e", "t">>,
      <<"-", "-", "d", "e", "f", "a", "u", "l", "t", "=">>,
      <<"-", "-", "l", "o", "g", "-", "l", "e", "v", "e", "l", "=", "n", "o", "t", "-", "a", "-", "l", "e", "v", "e", "l">>,
      <<"-", "-", "l", "o", "g", "-", "t", "a", "r", "g", "e", "t", "=", "n", "o", "t", "-", "a", "-", "t", "a", "r", "g", "e", "t">>,
      <<"-", "h">>,
      <<"-", "-", "h", "e", "l", "p">> }

\* The words of /proc/cmdline in the runs that compare orders of words.
OrderWords ==
    { <<"s", "y", "s", "t", "e", "m", "d", ".", "d", "e", "f", "a", "u", "l", "t", "=", "f", "o", "o", ".", "t", "a", "r", "g", "e", "t">>,
      <<"3">>,
      <<"5">>,
      <<"s", "y", "s", "t", "e", "m", "d", ".", "l", "o", "g", "_", "l", "e", "v", "e", "l", "=", "d", "e", "b", "u", "g">>,
      <<"s", "y", "s", "t", "e", "m", "d", ".", "l", "o", "g", "_", "l", "e", "v", "e", "l", "=", "i", "n", "f", "o">>,
      <<"s", "y", "s", "t", "e", "m", "d", ".", "l", "o", "g", "_", "l", "e", "v", "e", "l", "=", "n", "o", "t", "-", "a", "-", "l", "e", "v", "e", "l">>,
      <<"s", "y", "s", "t", "e", "m", "d", ".", "l", "o", "g", "_", "t", "a", "r", "g", "e", "t", "=", "k", "m", "s", "g">>,
      <<"q", "u", "i", "e", "t">> }

\* The arguments in runs of main() from parse_argv on.
ArgvWords ==
    ArgWords \cup
    { <<"-", "-", "l", "o", "g", "-", "l", "e", "v", "e", "l", "=", "d", "e", "b", "u", "g">>,
      <<"-", "-", "b", "o", "g", "u", "s">>,
      <<"-", "x">>,
      <<"e", "x", "t", "r", "a">>,
      <<"-", "-">> }

\* What log_parse_environment() may find in the environment: nothing, or a
\* level and a target.
EnvLogSettings ==
    { [level |-> UNSET, target |-> UNSET],
      [level |-> <<"i", "n", "f", "o">>, target |-> <<"s", "y", "s", "l", "o", "g">>] }

(***************************************************************************)
(* State.                                                                  *)
(***************************************************************************)
VARIABLES
    pc,             \* position of main()
    proc_cmdline,   \* /proc/cmdline: [readable, words]
    argv,           \* argv[1..argc-1]
    default_unit,   \* static char *default_unit
    action,         \* static enum action
    log_max_level,  \* log.c: the maximum log level
    log_target,     \* log.c: the log target
    line,           \* parse_proc_cmdline: the words of line still held
    state,          \* parse_proc_cmdline: index of the next word of line
    r,              \* parse_proc_cmdline: r
    optind,         \* getopt: optind
    nextchar,       \* getopt: position inside a cluster of short options
    nonopts,        \* getopt: positional arguments moved behind the options
    m,              \* main: Manager *m
    retval,         \* main: retval
    load_name,      \* the name handed to manager_load_unit
    error,          \* the step whose failure was fatal, "none" so far
    trace           \* the calls made so far, in order

vars == <<pc, proc_cmdline, argv, default_unit, action, log_max_level, log_target,
          line, state, r, optind, nextchar, nonopts, m, retval, load_name, error, trace>>

argc == Len(argv) + 1

cfg_vars == <<default_unit, log_max_level, log_target>>
input_vars == <<proc_cmdline, argv>>
cmdline_vars == <<line, state, r>>
getopt_vars == <<optind, nextchar, nonopts>>

Init ==
    /\ pc = "main"
    /\ proc_cmdline \in
          {[readable |-> FALSE, words |-> <<>>]} \cup
          {[readable |-> TRUE, words |-> w] : w \in SeqsUpTo(KernelWords, MaxWords)}
    /\ argv \in SeqsUpTo(ArgWords, MaxArgs)
    /\ default_unit = NULL
    /\ action = "ACTION_RUN"
    /\ log_max_level = UNSET
    /\ log_target = UNSET
    /\ line = <<>>
    /\ state = 0
    /\ r = 0
    /\ optind = 1
    /\ nextchar = 0
    /\ nonopts = 0
    /\ m = "NULL"
    /\ retval = 1
    /\ load_name = NULL
    /\ error = "none"
    /\ trace = <<>>

(***************************************************************************)
(* parse_argv: the body of the while loop for one result g of getopt_long, *)
(* and the test after the loop.  returned tells whether parse_argv         *)
(* returns at this point, r is then its return value.                      *)
(***************************************************************************)
\* Mutant: a log level that does not parse is ignored, as on the kernel
\* command line.
case_ARG_LOG_LEVEL_ignore_failure(optarg, keep) ==
    LET s == log_set_max_level_from_string(optarg, keep.log_max_level)
    IN  [keep EXCEPT !.log_max_level = s.value]

\* case ARG_LOG_LEVEL: a value that does not parse makes parse_argv return r
case_ARG_LOG_LEVEL(optarg, keep) ==
    LET s == log_set_max_level_from_string(optarg, keep.log_max_level)
    IN  IF s.r < 0
        THEN [keep EXCEPT !.returned = TRUE, !.r = s.r]
        ELSE [keep EXCEPT !.log_max_level = s.value]

\* case ARG_LOG_TARGET
case_ARG_LOG_TARGET(optarg, keep) ==
    LET s == log_set_target_from_string(optarg, keep.log_target)
    IN  IF s.r < 0
        THEN [keep EXCEPT !.returned = TRUE, !.r = s.r]
        ELSE [keep EXCEPT !.log_target = s.value]

\* Mutant: --default applies only while the compiled-in fallback is in place,
\* so that a kernel command-line word beats the argument.
case_ARG_DEFAULT_kernel_wins(optarg, strdup_ok, keep) ==
    LET s == set_default_unit(optarg, strdup_ok, keep.default_unit)
    IN  IF s.r < 0
        THEN [keep EXCEPT !.returned = TRUE, !.r = s.r]
        ELSE IF keep.default_unit = SPECIAL_DEFAULT_TARGET
        THEN [keep EXCEPT !.default_unit = s.default_unit]
        ELSE keep

\* case ARG_DEFAULT
case_ARG_DEFAULT(optarg, strdup_ok, keep) ==
    LET s == set_default_unit(optarg, strdup_ok, keep.default_unit)
    IN  IF s.r < 0
        THEN [keep EXCEPT !.returned = TRUE, !.r = s.r]
        ELSE [keep EXCEPT !.default_unit = s.default_unit]

\* Mutant: 'h' ends option processing with success, whatever follows.
parse_argv_case_help_returns(g, strdup_ok, du, lvl, tgt, act) ==
    LET keep == [returned |-> FALSE, r |-> 0, default_unit |-> du,
                 log_max_level |-> lvl, log_target |-> tgt, action |-> act]
    IN  CASE g.c = "ARG_LOG_LEVEL" -> case_ARG_LOG_LEVEL(g.optarg, keep)
          [] g.c = "ARG_LOG_TARGET" -> case_ARG_LOG_TARGET(g.optarg, keep)
          [] g.c = "ARG_DEFAULT" -> case_ARG_DEFAULT(g.optarg, strdup_ok, keep)
          [] g.c = "h" -> [keep EXCEPT !.action = "ACTION_HELP", !.returned = TRUE]
          [] g.c = "?" -> [keep EXCEPT !.returned = TRUE, !.r = -EINVAL]
          [] OTHER -> [keep EXCEPT !.returned = TRUE, !.r = -EINVAL]

\* the switch on the result of getopt_long
parse_argv_case(g, strdup_ok, du, lvl, tgt, act) ==
    LET keep == [returned |-> FALSE, r |-> 0, default_unit |-> du,
                 log_max_level |-> lvl, log_target |-> tgt, action |-> act]
    IN  CASE g.c = "ARG_LOG_LEVEL" -> case_ARG_LOG_LEVEL(g.optarg, keep)
          [] g.c = "ARG_LOG_TARGET" -> case_ARG_LOG_TARGET(g.optarg, keep)
          [] g.c = "ARG_DEFAULT" -> case_ARG_DEFAULT(g.optarg, strdup_ok, keep)
          [] g.c = "h" -> [keep EXCEPT !.action = "ACTION_HELP"]
          [] g.c = "?" -> [keep EXCEPT !.returned = TRUE, !.r = -EINVAL]
          [] OTHER -> [keep EXCEPT !.returned = TRUE, !.r = -EINVAL]

\* Mutant: arguments left over after the options are accepted.
parse_argv_end_accepts_leftover(oi, ac) == 0

\* if (optind < argc) return -EINVAL; return 0;
parse_argv_end(oi, ac) == IF oi < ac THEN -EINVAL ELSE 0

(***************************************************************************)
(* main(), one action per step.                                            *)
(***************************************************************************)
\* A call of main whose result, when it has one, main ignores.
Call(from, name, to) ==
    /\ pc = from
    /\ trace' = Append(trace, name)
    /\ pc' = to
    /\ UNCHANGED <<input_vars, cfg_vars, action, cmdline_vars, getopt_vars, m, retval,
                   load_name, error>>

\* A call of main whose failure is fatal: main goes on at to when it
\* succeeded and at fail_to when it failed.
FatalCall(from, name, ok, to, fail_to) ==
    /\ pc = from
    /\ trace' = Append(trace, name)
    /\ pc' = IF ok THEN to ELSE fail_to
    /\ error' = IF ok THEN error ELSE name
    /\ UNCHANGED <<input_vars, cfg_vars, action, cmdline_vars, getopt_vars, m, retval,
                   load_name>>

\* if (set_default_unit(SPECIAL_DEFAULT_TARGET) < 0) goto finish;
InitialDefaultUnit ==
    /\ pc = "main"
    /\ \E strdup_ok \in BOOLEAN :
          LET s == set_default_unit(SPECIAL_DEFAULT_TARGET, strdup_ok, default_unit)
          IN  /\ default_unit' = s.default_unit
              /\ pc' = IF s.r < 0 THEN "finish" ELSE "mount_setup"
              /\ error' = IF s.r < 0 THEN "set_default_unit" ELSE error
    /\ UNCHANGED <<input_vars, log_max_level, log_target, action, cmdline_vars,
                   getopt_vars, m, retval, load_name, trace>>

MountSetup == Call("mount_setup", "mount_setup", "reset_all_signal_handlers")

\* assert_se(reset_all_signal_handlers() == 0): abort() when it fails
ResetAllSignalHandlers ==
    \E ok \in BOOLEAN :
        FatalCall("reset_all_signal_handlers", "reset_all_signal_handlers", ok,
                  "close_all_fds", "aborted")

\* Mutant: the inherited file descriptors are not closed.
CloseAllFds_skipped ==
    /\ pc = "close_all_fds"
    /\ pc' = "parse_proc_cmdline"
    /\ UNCHANGED <<input_vars, cfg_vars, action, cmdline_vars, getopt_vars, m, retval,
                   load_name, error, trace>>

\* assert_se(close_all_fds(NULL, 0) == 0);
CloseAllFds ==
    \E ok \in BOOLEAN :
        FatalCall("close_all_fds", "close_all_fds", ok, "parse_proc_cmdline", "aborted")

\* Mutant: parse_proc_cmdline returns the failure of read_one_line_file.
ReadProcCmdline_failure_fatal ==
    /\ pc = "parse_proc_cmdline"
    /\ trace' = Append(trace, "read_one_line_file")
    /\ IF proc_cmdline.readable
       THEN /\ line' = proc_cmdline.words
            /\ state' = 1
            /\ r' = 0
            /\ pc' = "foreach_word"
            /\ error' = error
       ELSE /\ r' = -1
            /\ pc' = "finish"
            /\ error' = "parse_proc_cmdline"
            /\ UNCHANGED <<line, state>>
    /\ UNCHANGED <<input_vars, cfg_vars, action, getopt_vars, m, retval, load_name>>

\* parse_proc_cmdline: read_one_line_file; a failure is warned about and
\* parse_proc_cmdline returns 0
ReadProcCmdline ==
    /\ pc = "parse_proc_cmdline"
    /\ trace' = Append(trace, "read_one_line_file")
    /\ IF proc_cmdline.readable
       THEN /\ line' = proc_cmdline.words
            /\ state' = 1
            /\ r' = 0
            /\ pc' = "foreach_word"
       ELSE /\ r' = -1
            /\ pc' = "log_parse_environment"
            /\ UNCHANGED <<line, state>>
    /\ UNCHANGED <<input_vars, cfg_vars, action, getopt_vars, m, retval, load_name, error>>

\* one iteration of FOREACH_WORD_QUOTED: strndup, parse_proc_cmdline_word,
\* if (r < 0) goto finish;
ForeachWord ==
    /\ pc = "foreach_word"
    /\ state <= Len(line)
    /\ \E strndup_ok \in BOOLEAN, strdup_ok \in BOOLEAN :
          IF ~strndup_ok
          THEN /\ r' = -ENOMEM
               /\ pc' = "parse_proc_cmdline_finish"
               /\ UNCHANGED <<cfg_vars, state>>
          ELSE LET res == parse_proc_cmdline_word(line[state], strdup_ok,
                              [default_unit |-> default_unit,
                               log_target |-> log_target,
                               log_max_level |-> log_max_level])
               IN  /\ default_unit' = res.default_unit
                   /\ log_target' = res.log_target
                   /\ log_max_level' = res.log_max_level
                   /\ r' = res.r
                   /\ IF res.r < 0
                      THEN pc' = "parse_proc_cmdline_finish" /\ state' = state
                      ELSE pc' = "foreach_word" /\ state' = state + 1
    /\ UNCHANGED <<input_vars, action, line, getopt_vars, m, retval, load_name, error,
                   trace>>

\* the loop is over: r = 0;
ForeachDone ==
    /\ pc = "foreach_word"
    /\ state > Len(line)
    /\ r' = 0
    /\ pc' = "parse_proc_cmdline_finish"
    /\ UNCHANGED <<input_vars, cfg_vars, action, line, state, getopt_vars, m, retval,
                   load_name, error, trace>>

\* finish: free(line); return r;  and in main: if (... < 0) goto finish;
ParseProcCmdlineFinish ==
    /\ pc = "parse_proc_cmdline_finish"
    /\ line' = <<>>
    /\ pc' = IF r < 0 THEN "finish" ELSE "log_parse_environment"
    /\ error' = IF r < 0 THEN "parse_proc_cmdline" ELSE error
    /\ UNCHANGED <<input_vars, cfg_vars, action, state, r, getopt_vars, m, retval,
                   load_name, trace>>

\* log_parse_environment(): the environment may set the log settings
LogParseEnvironment ==
    /\ pc = "log_parse_environment"
    /\ \E env \in EnvLogSettings :
          /\ log_max_level' = IF env.level = UNSET THEN log_max_level ELSE env.level
          /\ log_target' = IF env.target = UNSET THEN log_target ELSE env.target
    /\ trace' = Append(trace, "log_parse_environment")
    /\ pc' = "parse_argv"
    /\ UNCHANGED <<input_vars, default_unit, action, cmdline_vars, getopt_vars, m,
                   retval, load_name, error>>

\* parse_argv: one getopt_long call and the switch on its result, or the
\* end of the loop; and in main: if (parse_argv(argc, argv) < 0) goto finish;
ParseArgv ==
    /\ pc = "parse_argv"
    /\ \E strdup_ok \in BOOLEAN :
          LET g == getopt_long(argv, optind, nextchar)
              res == parse_argv_case(g, strdup_ok, default_unit, log_max_level,
                                     log_target, action)
              final_optind == argc - (nonopts + g.skipped)
              ret == IF g.c = "EOF" THEN parse_argv_end(final_optind, argc) ELSE res.r
          IN  /\ nextchar' = g.nextchar
              /\ nonopts' = nonopts + g.skipped
              /\ IF g.c = "EOF"
                 THEN /\ optind' = final_optind
                      /\ UNCHANGED <<cfg_vars, action>>
                 ELSE /\ optind' = g.optind
                      /\ default_unit' = res.default_unit
                      /\ log_max_level' = res.log_max_level
                      /\ log_target' = res.log_target
                      /\ action' = res.action
              /\ pc' = IF g.c # "EOF" /\ ~res.returned THEN "parse_argv"
                       ELSE IF ret < 0 THEN "finish"
                       ELSE "action_check"
              /\ error' = IF (g.c = "EOF" \/ res.returned) /\ ret < 0
                          THEN "parse_argv" ELSE error
    /\ UNCHANGED <<input_vars, cmdline_vars, m, retval, load_name, trace>>

\* Mutant: help() is called but main does not go to finish.
Help_no_goto_finish ==
    /\ pc = "action_check"
    /\ action = "ACTION_HELP"
    /\ trace' = Append(trace, "help")
    /\ retval' = 0
    /\ pc' = "chdir"
    /\ UNCHANGED <<input_vars, cfg_vars, action, cmdline_vars, getopt_vars, m, load_name,
                   error>>

\* if (action == ACTION_HELP) { retval = help(); goto finish; }
Help ==
    /\ pc = "action_check"
    /\ action = "ACTION_HELP"
    /\ trace' = Append(trace, "help")
    /\ retval' = 0
    /\ pc' = "finish"
    /\ UNCHANGED <<input_vars, cfg_vars, action, cmdline_vars, getopt_vars, m, load_name,
                   error>>

\* assert_se(action == ACTION_RUN);
AssertActionRun ==
    /\ pc = "action_check"
    /\ action # "ACTION_HELP"
    /\ pc' = IF action = "ACTION_RUN" THEN "chdir" ELSE "aborted"
    /\ UNCHANGED <<input_vars, cfg_vars, action, cmdline_vars, getopt_vars, m, retval,
                   load_name, error, trace>>

\* assert_se(chdir("/") == 0);
Chdir ==
    \E ok \in BOOLEAN :
        FatalCall("chdir", "chdir", ok, "setsid", "aborted")

Setsid == Call("setsid", "setsid", "umask")

Umask == Call("umask", "umask", "dbus_connection_set_change_sigpipe")

DbusSetChangeSigpipe ==
    Call("dbus_connection_set_change_sigpipe", "dbus_connection_set_change_sigpipe",
         "log_open_syslog")

LogOpenSyslog == Call("log_open_syslog", "log_open_syslog", "log_open_kmsg")

LogOpenKmsg == Call("log_open_kmsg", "log_open_kmsg", "manager_new")

\* Mutant: a failed manager_new leaves a pointer in m.
ManagerNew_sets_m_on_failure ==
    /\ pc = "manager_new"
    /\ trace' = Append(trace, "manager_new")
    /\ \E ok \in BOOLEAN :
          /\ m' = "manager"
          /\ pc' = IF ok THEN "manager_coldplug" ELSE "finish"
          /\ error' = IF ok THEN error ELSE "manager_new"
    /\ UNCHANGED <<input_vars, cfg_vars, action, cmdline_vars, getopt_vars, retval,
                   load_name>>

\* if ((r = manager_new(&m)) < 0) goto finish;
ManagerNew ==
    /\ pc = "manager_new"
    /\ trace' = Append(trace, "manager_new")
    /\ \E ok \in BOOLEAN :
          /\ m' = IF ok THEN "manager" ELSE m
          /\ pc' = IF ok THEN "manager_coldplug" ELSE "finish"
          /\ error' = IF ok THEN error ELSE "manager_new"
    /\ UNCHANGED <<input_vars, cfg_vars, action, cmdline_vars, getopt_vars, retval,
                   load_name>>

\* Mutant: main goes on after a failed manager_coldplug.
ManagerColdplug_ignores_failure ==
    \E ok \in BOOLEAN :
        FatalCall("manager_coldplug", "manager_coldplug", ok, "manager_load_unit",
                  "manager_load_unit")

\* if ((r = manager_coldplug(m)) < 0) goto finish;
ManagerColdplug ==
    \E ok \in BOOLEAN :
        FatalCall("manager_coldplug", "manager_coldplug", ok, "manager_load_unit", "finish")

\* Mutant: manager_load_unit is passed the compiled-in name.
ManagerLoadUnit_passes_fallback ==
    /\ pc = "manager_load_unit"
    /\ trace' = Append(trace, "manager_load_unit")
    /\ load_name' = SPECIAL_DEFAULT_TARGET
    /\ \E ok \in BOOLEAN :
          /\ pc' = IF ok THEN "manager_dump_units" ELSE "finish"
          /\ error' = IF ok THEN error ELSE "manager_load_unit"
    /\ UNCHANGED <<input_vars, cfg_vars, action, cmdline_vars, getopt_vars, m, retval>>

\* if ((r = manager_load_unit(m, default_unit, &target)) < 0) goto finish;
ManagerLoadUnit ==
    /\ pc = "manager_load_unit"
    /\ trace' = Append(trace, "manager_load_unit")
    /\ load_name' = default_unit
    /\ \E ok \in BOOLEAN :
          /\ pc' = IF ok THEN "manager_dump_units" ELSE "finish"
          /\ error' = IF ok THEN error ELSE "manager_load_unit"
    /\ UNCHANGED <<input_vars, cfg_vars, action, cmdline_vars, getopt_vars, m, retval>>

ManagerDumpUnits == Call("manager_dump_units", "manager_dump_units", "manager_add_job")

\* if ((r = manager_add_job(m, JOB_START, target, JOB_REPLACE, false, &job)) < 0)
\*         goto finish;
ManagerAddJob ==
    \E ok \in BOOLEAN :
        FatalCall("manager_add_job", "manager_add_job", ok, "manager_dump_jobs", "finish")

ManagerDumpJobs == Call("manager_dump_jobs", "manager_dump_jobs", "manager_loop")

\* Mutant: retval = 0 is set before the result of manager_loop is tested.
ManagerLoop_retval_before_test ==
    /\ pc = "manager_loop"
    /\ trace' = Append(trace, "manager_loop")
    /\ \E ok \in BOOLEAN :
          /\ retval' = 0
          /\ error' = IF ok THEN error ELSE "manager_loop"
    /\ pc' = "finish"
    /\ UNCHANGED <<input_vars, cfg_vars, action, cmdline_vars, getopt_vars, m, load_name>>

\* if ((r = manager_loop(m)) < 0) goto finish;  retval = 0;
ManagerLoop ==
    /\ pc = "manager_loop"
    /\ trace' = Append(trace, "manager_loop")
    /\ \E ok \in BOOLEAN :
          /\ retval' = IF ok THEN 0 ELSE retval
          /\ error' = IF ok THEN error ELSE "manager_loop"
    /\ pc' = "finish"
    /\ UNCHANGED <<input_vars, cfg_vars, action, cmdline_vars, getopt_vars, m, load_name>>

\* Mutant: finish does not free the Manager.
Finish_no_manager_free ==
    /\ pc = "finish"
    /\ pc' = "free_default_unit"
    /\ UNCHANGED <<input_vars, cfg_vars, action, cmdline_vars, getopt_vars, retval,
                   load_name, error, trace, m>>

\* finish: if (m) manager_free(m);
Finish ==
    /\ pc = "finish"
    /\ IF m # "NULL"
       THEN trace' = Append(trace, "manager_free") /\ m' = "freed"
       ELSE UNCHANGED <<trace, m>>
    /\ pc' = "free_default_unit"
    /\ UNCHANGED <<input_vars, cfg_vars, action, cmdline_vars, getopt_vars, retval,
                   load_name, error>>

\* free(default_unit);
FreeDefaultUnit ==
    /\ pc = "free_default_unit"
    /\ default_unit' = FREED
    /\ trace' = Append(trace, "free_default_unit")
    /\ pc' = "dbus_shutdown"
    /\ UNCHANGED <<input_vars, log_max_level, log_target, action, cmdline_vars,
                   getopt_vars, m, retval, load_name, error>>

\* dbus_shutdown(); return retval;
DbusShutdown == Call("dbus_shutdown", "dbus_shutdown", "exited")

Next ==
    \/ InitialDefaultUnit
    \/ MountSetup
    \/ ResetAllSignalHandlers
    \/ CloseAllFds
    \/ ReadProcCmdline
    \/ ForeachWord
    \/ ForeachDone
    \/ ParseProcCmdlineFinish
    \/ LogParseEnvironment
    \/ ParseArgv
    \/ Help
    \/ AssertActionRun
    \/ Chdir
    \/ Setsid
    \/ Umask
    \/ DbusSetChangeSigpipe
    \/ LogOpenSyslog
    \/ LogOpenKmsg
    \/ ManagerNew
    \/ ManagerColdplug
    \/ ManagerLoadUnit
    \/ ManagerDumpUnits
    \/ ManagerAddJob
    \/ ManagerDumpJobs
    \/ ManagerLoop
    \/ Finish
    \/ FreeDefaultUnit
    \/ DbusShutdown

Spec == Init /\ [][Next]_vars

(***************************************************************************)
(* parse_proc_cmdline() alone, from the state in which main calls it, over *)
(* the larger vocabulary of kernel command-line words.                     *)
(***************************************************************************)
InitCmdline ==
    /\ pc = "parse_proc_cmdline"
    /\ proc_cmdline \in
          {[readable |-> FALSE, words |-> <<>>]} \cup
          {[readable |-> TRUE, words |-> w] : w \in SeqsUpTo(CmdlineWords, MaxWords)}
    /\ argv = <<>>
    /\ default_unit = SPECIAL_DEFAULT_TARGET
    /\ action = "ACTION_RUN"
    /\ log_max_level = UNSET
    /\ log_target = UNSET
    /\ line = <<>>
    /\ state = 0
    /\ r = 0
    /\ optind = 1
    /\ nextchar = 0
    /\ nonopts = 0
    /\ m = "NULL"
    /\ retval = 1
    /\ load_name = NULL
    /\ error = "none"
    /\ trace = <<"mount_setup", "reset_all_signal_handlers", "close_all_fds">>

NextCmdline ==
    \/ ReadProcCmdline
    \/ ForeachWord
    \/ ForeachDone
    \/ ParseProcCmdlineFinish

SpecCmdline == InitCmdline /\ [][NextCmdline]_vars

(***************************************************************************)
(* parse_proc_cmdline as a function of the words of the line: the          *)
(* configuration the loop leaves when no allocation fails.                 *)
(***************************************************************************)
RECURSIVE parse_proc_cmdline_words(_, _)
parse_proc_cmdline_words(words, cfg) ==
    IF words = <<>> THEN cfg
    ELSE LET res == parse_proc_cmdline_word(Head(words), TRUE, cfg)
         IN  parse_proc_cmdline_words(Tail(words),
                 [default_unit |-> res.default_unit,
                  log_target |-> res.log_target,
                  log_max_level |-> res.log_max_level])

(***************************************************************************)
(* Vocabulary of the properties.                                           *)
(***************************************************************************)
InTrace(name) == \E k \in 1..Len(trace) : trace[k] = name

Count(name) == Cardinality({k \in 1..Len(trace) : trace[k] = name})

\* The configuration main holds when it calls parse_proc_cmdline.
CfgAtEntry ==
    [default_unit |-> SPECIAL_DEFAULT_TARGET, log_target |-> UNSET, log_max_level |-> UNSET]

CfgNow ==
    [default_unit |-> default_unit, log_target |-> log_target,
     log_max_level |-> log_max_level]

\* The steps of main after the help test, by the name of the call, and the
\* positions of main from which one of them can still be reached.
LaterSteps ==
    {"chdir", "setsid", "umask", "dbus_connection_set_change_sigpipe",
     "log_open_syslog", "log_open_kmsg", "manager_new", "manager_coldplug",
     "manager_load_unit", "manager_dump_units", "manager_add_job",
     "manager_dump_jobs", "manager_loop", "manager_free"}

NoLaterStep == \A k \in 1..Len(trace) : trace[k] \notin LaterSteps

CleanupPcs == {"finish", "free_default_unit", "dbus_shutdown", "exited"}

\* The steps main guards with assert_se.
AssertSteps == {"reset_all_signal_handlers", "close_all_fds", "chdir"}

\* The steps whose failure sends main to finish.
GotoFinishSteps ==
    {"set_default_unit", "parse_proc_cmdline", "parse_argv", "manager_new",
     "manager_coldplug", "manager_load_unit", "manager_add_job", "manager_loop"}

WORD_default_foo == <<"s", "y", "s", "t", "e", "m", "d", ".", "d", "e", "f", "a", "u", "l", "t", "=", "f", "o", "o", ".", "t", "a", "r", "g", "e", "t">>
WORD_default_empty == <<"s", "y", "s", "t", "e", "m", "d", ".", "d", "e", "f", "a", "u", "l", "t", "=">>
WORD_log_level_bad == <<"s", "y", "s", "t", "e", "m", "d", ".", "l", "o", "g", "_", "l", "e", "v", "e", "l", "=", "n", "o", "t", "-", "a", "-", "l", "e", "v", "e", "l">>
WORD_quiet == <<"q", "u", "i", "e", "t">>
FOO_TARGET == <<"f", "o", "o", ".", "t", "a", "r", "g", "e", "t">>
ARG_PREFIX_DEFAULT == <<"-", "-", "d", "e", "f", "a", "u", "l", "t", "=">>
ARG_PREFIX_LOG_LEVEL == <<"-", "-", "l", "o", "g", "-", "l", "e", "v", "e", "l", "=">>
ARG_PREFIX_LOG_TARGET == <<"-", "-", "l", "o", "g", "-", "t", "a", "r", "g", "e", "t", "=">>

\* The indices of the arguments of the form --default=U.
DefaultArgs == {k \in 1..Len(argv) : startswith(argv[k], ARG_PREFIX_DEFAULT)}

\* The U of the last --default=U (DefaultArgs is not empty).
LastDefaultArg ==
    LET k == CHOOSE i \in DefaultArgs : \A j \in DefaultArgs : j <= i
    IN  PtrAdd(argv[k], Len(ARG_PREFIX_DEFAULT))

\* The legacy runlevel words and their targets, as the specification lists them.
RunlevelKeys ==
    {<<"s", "i", "n", "g", "l", "e">>, <<"-", "s">>, <<"s">>, <<"S">>, <<"1">>,
     <<"2">>, <<"3">>, <<"4">>, <<"5">>}

RunlevelTarget(w) ==
    CASE w = <<"2">> -> SPECIAL_RUNLEVEL2_TARGET
      [] w = <<"3">> -> SPECIAL_RUNLEVEL3_TARGET
      [] w = <<"4">> -> SPECIAL_RUNLEVEL4_TARGET
      [] w = <<"5">> -> SPECIAL_RUNLEVEL5_TARGET
      [] OTHER -> SPECIAL_RUNLEVEL1_TARGET

HasSystemdPrefix(w) ==
    \/ startswith(w, PREFIX_DEFAULT)
    \/ startswith(w, PREFIX_LOG_TARGET)
    \/ startswith(w, PREFIX_LOG_LEVEL)

\* A word that sets the default unit.
SetsDefaultUnit(w) == startswith(w, PREFIX_DEFAULT) \/ w \in RunlevelKeys

\* A word that matches none of the three prefixes and is no runlevel key.
Unrecognized(w) == ~HasSystemdPrefix(w) /\ w \notin RunlevelKeys

Recognized(w) == ~Unrecognized(w)

\* A systemd.log_level= or systemd.log_target= word whose value does not parse.
MalformedLogWord(w) ==
    \/ startswith(w, PREFIX_LOG_LEVEL) /\ PtrAdd(w, Len(PREFIX_LOG_LEVEL)) \notin LogLevelNames
    \/ startswith(w, PREFIX_LOG_TARGET) /\ PtrAdd(w, Len(PREFIX_LOG_TARGET)) \notin LogTargetNames

WellFormedWord(w) == ~MalformedLogWord(w)

\* A --log-level= or --log-target= argument whose value does not parse.
BadLogArg(a) ==
    \/ startswith(a, ARG_PREFIX_LOG_LEVEL) /\ PtrAdd(a, Len(ARG_PREFIX_LOG_LEVEL)) \notin LogLevelNames
    \/ startswith(a, ARG_PREFIX_LOG_TARGET) /\ PtrAdd(a, Len(ARG_PREFIX_LOG_TARGET)) \notin LogTargetNames

(***************************************************************************)
(* C1: for every kernel command-line word systemd.default=X the default    *)
(* unit is set to exactly X, the text after the "="; with the single word  *)
(* systemd.default=foo.target and no arguments the resolved default unit   *)
(* is foo.target.                                                          *)
(***************************************************************************)
C1_DefaultUnitIsTextAfterEquals ==
    /\ (pc = "foreach_word" /\ state > 1 /\ startswith(line[state - 1], PREFIX_DEFAULT))
          => default_unit = PtrAdd(line[state - 1], Len(PREFIX_DEFAULT))
    /\ (pc = "action_check" /\ argv = <<>> /\ proc_cmdline.words = <<WORD_default_foo>>)
          => default_unit = FOO_TARGET

(***************************************************************************)
(* C2: precedence.  The name handed to manager_load_unit is the U of the   *)
(* last --default=U argument when there is one, whatever /proc/cmdline     *)
(* holds; else the value the kernel command line left; and the compiled-in *)
(* fallback when no word and no argument sets it.                          *)
(***************************************************************************)
C2_Precedence ==
    load_name # NULL =>
        /\ DefaultArgs # {} => load_name = LastDefaultArg
        /\ DefaultArgs = {} =>
              load_name = parse_proc_cmdline_words(proc_cmdline.words, CfgAtEntry).default_unit
        /\ (DefaultArgs = {} /\ \A k \in 1..Len(proc_cmdline.words) :
                                   ~SetsDefaultUnit(proc_cmdline.words[k]))
              => load_name = SPECIAL_DEFAULT_TARGET

\* An argument overrides a kernel command-line word, and the last argument wins.
C2_Witness ==
    /\ load_name # NULL
    /\ Cardinality(DefaultArgs) = 2
    /\ argv[1] # argv[2]
    /\ \E k \in 1..Len(proc_cmdline.words) : SetsDefaultUnit(proc_cmdline.words[k])

C5_DefaultUnitNeverEmpty ==
    pc = "action_check" => default_unit # <<>>

(***************************************************************************)
(* C5 amended: once resolution has completed successfully the default unit *)
(* is always set, and it is the empty string exactly when the last         *)
(* --default option carries an empty value; no kernel command-line word    *)
(* makes it empty.                                                         *)
(***************************************************************************)
C5_EmptyOnlyByEmptyDefaultArg ==
    pc = "action_check" =>
        /\ default_unit \notin {NULL, FREED}
        /\ default_unit = <<>> <=> (DefaultArgs # {} /\ LastDefaultArg = <<>>)

\* The line holds systemd.default= with an empty value, the last --default
\* argument too: the default unit is empty.
C5_Witness ==
    /\ pc = "action_check"
    /\ default_unit = <<>>
    /\ proc_cmdline.words = <<WORD_default_empty>>

(***************************************************************************)
(* C6: a --log-level= or --log-target= value that does not parse makes     *)
(* parse_argv return at once (the loop never goes on past such an          *)
(* argument), the process exits with status 1, and none of the steps       *)
(* after the help test (chdir ... manager_loop) is performed; nor is help. *)
(***************************************************************************)
C6_BadLogArgumentIsFatal ==
    /\ pc = "parse_argv" => \A k \in 1..(optind - 1) : ~BadLogArg(argv[k])
    /\ (\E k \in 1..Len(argv) : BadLogArg(argv[k])) =>
          /\ pc \notin {"action_check"} \cup LaterSteps
          /\ NoLaterStep
          /\ ~InTrace("help")
          /\ pc = "exited" => retval = 1
    /\ error = "parse_argv" => pc \in CleanupPcs /\ NoLaterStep /\ m = "NULL"

\* parse_argv failed on a bad log argument that follows a valid argument,
\* and the process exited with status 1.
C6_Witness ==
    /\ pc = "exited"
    /\ error = "parse_argv"
    /\ retval = 1
    /\ Len(argv) = 2
    /\ ~BadLogArg(argv[1])
    /\ BadLogArg(argv[2])

(***************************************************************************)
(* C7: when parse_argv succeeds with action = ACTION_HELP, the usage text  *)
(* is printed, the process exits with status 0, and neither manager_new    *)
(* nor any other step after the help test is performed.                    *)
(***************************************************************************)
C7_HelpShortCircuits ==
    (action = "ACTION_HELP" /\ pc # "parse_argv" /\ error = "none") =>
        /\ pc \in {"action_check"} \cup CleanupPcs
        /\ NoLaterStep
        /\ m = "NULL"
        /\ pc \in CleanupPcs => (Count("help") = 1 /\ retval = 0)

\* -h or --help was accepted: usage printed, exit status 0.
C7_Witness ==
    /\ pc = "exited"
    /\ action = "ACTION_HELP"
    /\ InTrace("help")
    /\ retval = 0
    /\ NoLaterStep

(***************************************************************************)
(* C8: a systemd.log_level= or systemd.log_target= word whose value does   *)
(* not parse is not fatal: the scan goes on after it, parse_proc_cmdline   *)
(* fails only for want of memory, and when it succeeds every word was      *)
(* processed and the configuration is the one the line without the         *)
(* malformed words gives; main then goes on to log_parse_environment.      *)
(***************************************************************************)
C8_MalformedLogWordIgnored ==
    /\ (pc = "foreach_word" /\ state > 1) => r = 0
    /\ pc = "parse_proc_cmdline_finish" =>
          /\ r < 0 => r = -ENOMEM
          /\ r = 0 =>
                /\ state = Len(line) + 1
                /\ CfgNow = parse_proc_cmdline_words(SelectSeq(line, WellFormedWord),
                                                     CfgAtEntry)
    /\ (pc = "log_parse_environment" /\ proc_cmdline.readable) =>
          /\ r = 0
          /\ CfgNow = parse_proc_cmdline_words(
                          SelectSeq(proc_cmdline.words, WellFormedWord), CfgAtEntry)

\* A malformed systemd.log_level= word followed by systemd.default=: the
\* later word took effect and the run went through manager_loop.
C8_Witness ==
    /\ pc = "exited"
    /\ retval = 0
    /\ InTrace("manager_loop")
    /\ argv = <<>>
    /\ proc_cmdline.words = <<WORD_log_level_bad, WORD_default_foo>>
    /\ load_name # SPECIAL_DEFAULT_TARGET

(***************************************************************************)
(* C9: a word that matches none of the three prefixes and is no runlevel   *)
(* key is ignored: parse_proc_cmdline fails only for want of memory, and   *)
(* the configuration it leaves is the one the line without such words      *)
(* gives; with no word that sets it the default unit is the compiled-in    *)
(* fallback.                                                               *)
(***************************************************************************)
C9_UnrecognizedWordIgnored ==
    pc = "parse_proc_cmdline_finish" =>
        /\ r < 0 => r = -ENOMEM
        /\ r = 0 =>
              /\ state = Len(line) + 1
              /\ CfgNow = parse_proc_cmdline_words(SelectSeq(line, Recognized), CfgAtEntry)
              /\ (\A k \in 1..Len(line) : ~SetsDefaultUnit(line[k]))
                    => default_unit = SPECIAL_DEFAULT_TARGET

\* "quiet" before a word that sets the default unit: no error, the later
\* word took effect.
C9_Witness ==
    /\ pc = "parse_proc_cmdline_finish"
    /\ r = 0
    /\ Len(line) = 2
    /\ line[1] = WORD_quiet
    /\ SetsDefaultUnit(line[2])
    /\ default_unit # SPECIAL_DEFAULT_TARGET

(***************************************************************************)
(* C10: a word sets the default unit through rlmap only when it equals a   *)
(* key (single, -s, s, S, 1 give runlevel1.target, 2..5 give               *)
(* runlevel2..5.target); a word that only starts with or contains a key    *)
(* changes nothing, and a word with a systemd. prefix is not looked up.    *)
(* ExpectedDefaultUnit(ws) is the default unit after the words ws: the     *)
(* value of the last word that is a key or starts with systemd.default=    *)
(* (as the code sets it), the fallback when there is none.                 *)
(***************************************************************************)
RECURSIVE ExpectedDefaultUnit(_)
ExpectedDefaultUnit(ws) ==
    IF ws = <<>> THEN SPECIAL_DEFAULT_TARGET
    ELSE LET w == ws[Len(ws)]
         IN  IF startswith(w, PREFIX_DEFAULT) THEN PtrAdd(w, 15)
             ELSE IF ~HasSystemdPrefix(w) /\ w \in RunlevelKeys THEN RunlevelTarget(w)
             ELSE ExpectedDefaultUnit(SubSeq(ws, 1, Len(ws) - 1))

C10_RunlevelExactMatch ==
    pc = "foreach_word" =>
        default_unit = ExpectedDefaultUnit(SubSeq(line, 1, state - 1))

\* "3" then "33": the default unit is runlevel3.target after both.
C10_Witness ==
    /\ pc = "foreach_word"
    /\ state = 3
    /\ line = << <<"3">>, <<"3", "3">> >>
    /\ default_unit = SPECIAL_RUNLEVEL3_TARGET

(***************************************************************************)
(* main() from the call of parse_argv on, after a readable but empty       *)
(* /proc/cmdline and an empty environment, over the larger vocabulary of   *)
(* arguments.                                                              *)
(***************************************************************************)
InitArgv ==
    /\ pc = "parse_argv"
    /\ proc_cmdline = [readable |-> TRUE, words |-> <<>>]
    /\ argv \in SeqsUpTo(ArgvWords, MaxArgs)
    /\ default_unit = SPECIAL_DEFAULT_TARGET
    /\ action = "ACTION_RUN"
    /\ log_max_level = UNSET
    /\ log_target = UNSET
    /\ line = <<>>
    /\ state = 1
    /\ r = 0
    /\ optind = 1
    /\ nextchar = 0
    /\ nonopts = 0
    /\ m = "NULL"
    /\ retval = 1
    /\ load_name = NULL
    /\ error = "none"
    /\ trace = <<"mount_setup", "reset_all_signal_handlers", "close_all_fds",
                 "read_one_line_file", "log_parse_environment">>

NextArgv ==
    \/ ParseArgv
    \/ Help
    \/ AssertActionRun
    \/ Chdir
    \/ Setsid
    \/ Umask
    \/ DbusSetChangeSigpipe
    \/ LogOpenSyslog
    \/ LogOpenKmsg
    \/ ManagerNew
    \/ ManagerColdplug
    \/ ManagerLoadUnit
    \/ ManagerDumpUnits
    \/ ManagerAddJob
    \/ ManagerDumpJobs
    \/ ManagerLoop
    \/ Finish
    \/ FreeDefaultUnit
    \/ DbusShutdown

SpecArgv == InitArgv /\ [][NextArgv]_vars

(***************************************************************************)
(* Vocabulary of the properties of the argument list.                      *)
(***************************************************************************)
ARG_h == <<"-", "h">>
ARG_help == <<"-", "-", "h", "e", "l", "p">>
ARG_dashdash == <<"-", "-">>
ARG_extra == <<"e", "x", "t", "r", "a">>

\* The index of the first "--" of the argument list, Len(argv) + 1 without one.
FirstDashDash ==
    LET dd == {k \in 1..Len(argv) : argv[k] = ARG_dashdash}
    IN  IF dd = {} THEN Len(argv) + 1
        ELSE CHOOSE k \in dd : \A j \in dd : k <= j

\* An argument that is no option: it does not start with "-", or is "-".
IsPositional(a) == a = <<>> \/ a[1] # "-" \/ a = <<"-">>

\* An option the table of section 6 of the specification does not list.
IsUnknownFlag(a) ==
    /\ ~IsPositional(a)
    /\ a \notin {ARG_h, ARG_help, ARG_dashdash}
    /\ ~startswith(a, ARG_PREFIX_DEFAULT)
    /\ ~startswith(a, ARG_PREFIX_LOG_LEVEL)
    /\ ~startswith(a, ARG_PREFIX_LOG_TARGET)

\* The argument list holds an unknown flag, or an argument that is left
\* over after the options: a positional one, or anything behind "--".
HasStrayArgument ==
    \E k \in 1..Len(argv) :
        \/ k > FirstDashDash
        \/ k < FirstDashDash /\ (IsUnknownFlag(argv[k]) \/ IsPositional(argv[k]))

\* -h or --help is among the options.
HelpAmongOptions ==
    \E k \in 1..Len(argv) : k < FirstDashDash /\ argv[k] \in {ARG_h, ARG_help}

\* A log option whose value does not parse is among the options.
BadLogAmongOptions ==
    \E k \in 1..Len(argv) : k < FirstDashDash /\ BadLogArg(argv[k])

(***************************************************************************)
(* C11: an unknown flag, and an argument left over after the options,      *)
(* makes parse_argv fail whatever the other arguments are: the process     *)
(* exits with status 1, and neither manager_new nor any other step from    *)
(* the help test on is performed.                                          *)
(***************************************************************************)
C11_StrayArgumentIsFatal ==
    HasStrayArgument =>
        /\ pc \notin {"action_check"} \cup LaterSteps
        /\ NoLaterStep
        /\ ~InTrace("help")
        /\ m = "NULL"
        /\ pc \in CleanupPcs => (error = "parse_argv" /\ retval = 1)

\* A valid --default= followed by a positional argument: exit status 1,
\* although the option before it was applied.
C11_Witness ==
    /\ pc = "exited"
    /\ retval = 1
    /\ error = "parse_argv"
    /\ Len(argv) = 2
    /\ startswith(argv[1], ARG_PREFIX_DEFAULT)
    /\ argv[2] = ARG_extra

(***************************************************************************)
(* C19: -h does not end option processing.  An argument list that holds    *)
(* -h or --help together with a log value that does not parse, an unknown  *)
(* flag or a leftover argument, before or after the -h, is rejected: exit  *)
(* status 1 and no usage text.  Usage is printed only for a list that is   *)
(* accepted as a whole.                                                    *)
(***************************************************************************)
C19_HelpOnlyIfAllAccepted ==
    /\ (HelpAmongOptions /\ (HasStrayArgument \/ BadLogAmongOptions)) =>
           /\ ~InTrace("help")
           /\ pc # "action_check"
           /\ pc \in CleanupPcs => (error = "parse_argv" /\ retval = 1)
    /\ InTrace("help") =>
           (HelpAmongOptions /\ ~HasStrayArgument /\ ~BadLogAmongOptions)

\* -h first, then an unknown flag: the loop went on after -h (the action
\* was already ACTION_HELP) and the run ended with status 1, no usage.
C19_Witness ==
    /\ pc = "exited"
    /\ retval = 1
    /\ action = "ACTION_HELP"
    /\ ~InTrace("help")
    /\ Len(argv) = 2
    /\ argv[1] = ARG_h
    /\ IsUnknownFlag(argv[2])

(***************************************************************************)
(* parse_proc_cmdline called twice in a row on the same /proc/cmdline:     *)
(* after the first call has returned 0 it is called once more, from the    *)
(* configuration the first call left.                                      *)
(***************************************************************************)
ParseProcCmdlineAgain ==
    /\ pc = "log_parse_environment"
    /\ Count("read_one_line_file") = 1
    /\ pc' = "parse_proc_cmdline"
    /\ UNCHANGED <<input_vars, cfg_vars, action, cmdline_vars, getopt_vars, m, retval,
                   load_name, error, trace>>

NextTwice ==
    \/ ReadProcCmdline
    \/ ForeachWord
    \/ ForeachDone
    \/ ParseProcCmdlineFinish
    \/ ParseProcCmdlineAgain

SpecTwice == InitCmdline /\ [][NextTwice]_vars

\* The words parse_proc_cmdline processes: none when the file is unreadable.
WordsRead == IF proc_cmdline.readable THEN proc_cmdline.words ELSE <<>>

(***************************************************************************)
(* C12: parse_proc_cmdline is idempotent.  When it has returned 0 twice in *)
(* a row on the same text, the default unit, the log level and the log     *)
(* target are what they were after the first call, which is what one pass  *)
(* over the words makes of the configuration at entry.                     *)
(***************************************************************************)
C12_Idempotent ==
    (pc = "log_parse_environment" /\ Count("read_one_line_file") \in {1, 2}) =>
        CfgNow = parse_proc_cmdline_words(WordsRead, CfgAtEntry)

\* The second call has returned, on a line whose words changed all three
\* settings in the first call.
C12_Witness ==
    /\ pc = "log_parse_environment"
    /\ Count("read_one_line_file") = 2
    /\ Len(WordsRead) = 2
    /\ default_unit # SPECIAL_DEFAULT_TARGET
    /\ log_max_level # UNSET \/ log_target # UNSET

(***************************************************************************)
(* Vocabulary of the properties of the order of the steps.                 *)
(***************************************************************************)
\* Every occurrence of b in the trace has an occurrence of a before it.
Before(a, b) ==
    \A k \in 1..Len(trace) :
        trace[k] = b => \E j \in 1..(k - 1) : trace[j] = a

\* The positions of main at which a source overrides the default unit.
ResolutionPcs ==
    {"parse_proc_cmdline", "foreach_word", "parse_proc_cmdline_finish",
     "log_parse_environment", "parse_argv"}

\* The calls of the Manager that main makes between construction and
\* cleanup, in the order of the source.
ManagerCalls ==
    <<"manager_new", "manager_coldplug", "manager_load_unit", "manager_dump_units",
      "manager_add_job", "manager_dump_jobs", "manager_loop">>

IsManagerCall(name) == \E k \in 1..Len(ManagerCalls) : ManagerCalls[k] = name

\* The calls of ManagerCalls the run has made, in the order it made them.
ManagerTrace == SelectSeq(trace, IsManagerCall)

\* The calls of ManagerCalls that can fail.
FallibleManagerCalls ==
    {"manager_new", "manager_coldplug", "manager_load_unit", "manager_add_job",
     "manager_loop"}

(***************************************************************************)
(* C13: mount_setup precedes the read of /proc/cmdline; the reset of the   *)
(* signal handlers and close_all_fds precede the read of /proc/cmdline,    *)
(* the opening of either log backend and manager_new; and the fallback is  *)
(* the default unit before either source can override it.                  *)
(***************************************************************************)
C13_StepOrdering ==
    /\ Before("mount_setup", "read_one_line_file")
    /\ \A a \in {"reset_all_signal_handlers", "close_all_fds"} :
           \A b \in {"read_one_line_file", "log_open_syslog", "log_open_kmsg",
                     "manager_new"} : Before(a, b)
    /\ Before("reset_all_signal_handlers", "close_all_fds")
    /\ pc = "main" => (default_unit = NULL /\ trace = <<>>)
    /\ pc = "mount_setup" => default_unit = SPECIAL_DEFAULT_TARGET
    /\ pc \in ResolutionPcs => default_unit # NULL

\* The Manager is constructed, after a kernel command line that replaced
\* the fallback.
C13_Witness ==
    /\ InTrace("manager_new")
    /\ InTrace("log_open_kmsg")
    /\ m = "manager"
    /\ default_unit \notin {NULL, FREED, SPECIAL_DEFAULT_TARGET}
    /\ DefaultArgs = {}

(***************************************************************************)
(* C14: the calls manager_new, manager_coldplug, manager_load_unit,        *)
(* manager_dump_units, manager_add_job, manager_dump_jobs, manager_loop    *)
(* are made at most once each and in this order, each after the success of *)
(* all before it; the first failure leads to cleanup with no later call;   *)
(* and only the help path leaves the line before manager_new.              *)
(***************************************************************************)
C14_ManagerLineNoRetry ==
    /\ Len(ManagerTrace) <= Len(ManagerCalls)
    /\ ManagerTrace = SubSeq(ManagerCalls, 1, Len(ManagerTrace))
    /\ error \in FallibleManagerCalls =>
           /\ ManagerTrace # <<>>
           /\ ManagerTrace[Len(ManagerTrace)] = error
           /\ pc \in CleanupPcs
    /\ (ManagerTrace # <<>> /\ Len(ManagerTrace) < Len(ManagerCalls)
            /\ error \notin FallibleManagerCalls) =>
           pc = ManagerCalls[Len(ManagerTrace) + 1]
    /\ InTrace("help") => ManagerTrace = <<>>
    /\ (pc \in CleanupPcs /\ error = "none" /\ ~InTrace("help")) =>
           ManagerTrace = ManagerCalls

\* manager_add_job failed: the calls before it were made once each, and
\* neither manager_dump_jobs nor manager_loop was made.
C14_Witness ==
    /\ pc = "exited"
    /\ error = "manager_add_job"
    /\ Len(ManagerTrace) = 5
    /\ ~InTrace("manager_loop")

(***************************************************************************)
(* C15: when /proc/cmdline cannot be read, parse_proc_cmdline processes no *)
(* word and does not fail: the configuration is what it was at entry, the  *)
(* default unit the fallback, and main goes on with                        *)
(* log_parse_environment and parse_argv.                                   *)
(***************************************************************************)
C15_UnreadableCmdlineIsNotFatal ==
    ~proc_cmdline.readable =>
        /\ pc \notin {"foreach_word", "parse_proc_cmdline_finish"}
        /\ error # "parse_proc_cmdline"
        /\ (trace # <<>> /\ trace[Len(trace)] = "read_one_line_file") =>
               (pc = "log_parse_environment" /\ CfgNow = CfgAtEntry)
        /\ (pc = "parse_argv" /\ optind = 1 /\ nextchar = 0) =>
               default_unit = SPECIAL_DEFAULT_TARGET
        /\ (load_name # NULL /\ DefaultArgs = {}) => load_name = SPECIAL_DEFAULT_TARGET

\* After the failed read main reached manager_load_unit and passed the
\* fallback.
C15_Witness ==
    /\ ~proc_cmdline.readable
    /\ InTrace("read_one_line_file")
    /\ InTrace("log_parse_environment")
    /\ load_name = SPECIAL_DEFAULT_TARGET

(***************************************************************************)
(* C16: from the return of parse_argv on no step writes default_unit until *)
(* cleanup frees it; manager_load_unit is passed the default unit as it    *)
(* stands, which is the value resolution left; and default_unit is freed   *)
(* only after the last call of the Manager, manager_free included.         *)
(***************************************************************************)
C16_DefaultUnitFrozenAfterResolution ==
    /\ [][ /\ (pc \notin ResolutionPcs \cup {"main", "free_default_unit"}) =>
                  default_unit' = default_unit
           /\ pc = "free_default_unit" => default_unit' = FREED
           /\ pc = "manager_load_unit" =>
                  (load_name' = default_unit /\ default_unit \notin {NULL, FREED})
           /\ pc # "manager_load_unit" => load_name' = load_name ]_vars
    /\ [](default_unit = FREED =>
              (pc \in {"dbus_shutdown", "exited"} /\ m # "manager"))
    /\ [](\A i, j \in 1..Len(trace) :
              (i < j /\ trace[i] = "free_default_unit") =>
                  (~IsManagerCall(trace[j]) /\ trace[j] # "manager_free"))

\* A run to the end in which manager_load_unit was passed a name that an
\* override had set, and which was freed afterwards.
C16_Witness ==
    /\ pc = "exited"
    /\ default_unit = FREED
    /\ load_name \notin {NULL, SPECIAL_DEFAULT_TARGET}
    /\ InTrace("manager_loop")
    /\ m = "freed"

\* manager_new was called and returned success.
ManagerNewSucceeded == InTrace("manager_new") /\ error # "manager_new"

(***************************************************************************)
(* C18: manager_free is called exactly once in a run in which manager_new  *)
(* succeeded, whichever later call failed, and never in a run in which     *)
(* manager_new failed or was not reached; no call of the Manager follows   *)
(* it, and it precedes the release of default_unit and dbus_shutdown.      *)
(***************************************************************************)
C18_ManagerFreeOnceIffNewSucceeded ==
    /\ Count("manager_free") <= 1
    /\ InTrace("manager_free") => ManagerNewSucceeded
    /\ pc \in {"free_default_unit", "dbus_shutdown", "exited"} =>
           (Count("manager_free") = 1 <=> ManagerNewSucceeded)
    /\ ManagerNewSucceeded =>
           /\ pc # "aborted"
           /\ m = (IF InTrace("manager_free") THEN "freed" ELSE "manager")
    /\ ~ManagerNewSucceeded => m = "NULL"
    /\ \A i, j \in 1..Len(trace) :
           /\ (i < j /\ trace[i] = "manager_free") => ~IsManagerCall(trace[j])
           /\ (i < j /\ trace[j] = "manager_free") =>
                  trace[i] \notin {"manager_free", "free_default_unit", "dbus_shutdown"}

\* manager_coldplug failed after manager_new had succeeded: the Manager
\* was freed once, before the rest of cleanup.
C18_Witness ==
    /\ pc = "exited"
    /\ error = "manager_coldplug"
    /\ Count("manager_free") = 1
    /\ InTrace("dbus_shutdown")

(***************************************************************************)
(* Vocabulary of the properties of the order of the words.                 *)
(***************************************************************************)
\* The key a word carries, as the specification lists the keys.
Key(w) ==
    CASE startswith(w, PREFIX_DEFAULT) -> "systemd.default="
      [] startswith(w, PREFIX_LOG_TARGET) -> "systemd.log_target="
      [] startswith(w, PREFIX_LOG_LEVEL) -> "systemd.log_level="
      [] w \in RunlevelKeys -> "runlevel"
      [] OTHER -> "none"

\* The setting a word writes: a log word whose value does not parse and an
\* unrecognized word write none.
Setting(w) ==
    CASE SetsDefaultUnit(w) -> "default_unit"
      [] startswith(w, PREFIX_LOG_TARGET) /\ WellFormedWord(w) -> "log_target"
      [] startswith(w, PREFIX_LOG_LEVEL) /\ WellFormedWord(w) -> "log_max_level"
      [] OTHER -> "none"

Settings == {"default_unit", "log_target", "log_max_level"}

\* The words with the words at i and j exchanged.
Swap(ws, i, j) ==
    [k \in 1..Len(ws) |-> IF k = i THEN ws[j] ELSE IF k = j THEN ws[i] ELSE ws[k]]

\* The last index of a non-empty set of indices.
Last(S) == CHOOSE k \in S : \A j \in S : j <= k

(***************************************************************************)
(* parse_proc_cmdline on lines of up to MaxOrderWords words, long enough   *)
(* for two exchanged words to have a word between them.                    *)
(***************************************************************************)
InitOrder ==
    /\ pc = "parse_proc_cmdline"
    /\ proc_cmdline \in
          {[readable |-> TRUE, words |-> w] : w \in SeqsUpTo(OrderWords, MaxOrderWords)}
    /\ argv = <<>>
    /\ default_unit = SPECIAL_DEFAULT_TARGET
    /\ action = "ACTION_RUN"
    /\ log_max_level = UNSET
    /\ log_target = UNSET
    /\ line = <<>>
    /\ state = 0
    /\ r = 0
    /\ optind = 1
    /\ nextchar = 0
    /\ nonopts = 0
    /\ m = "NULL"
    /\ retval = 1
    /\ load_name = NULL
    /\ error = "none"
    /\ trace = <<"mount_setup", "reset_all_signal_handlers", "close_all_fds">>

SpecOrder == InitOrder /\ [][NextCmdline]_vars

\* No word strictly between the words at i and j writes a setting that
\* one of the two writes.
NoneBetweenWritesSame(ws, i, j) ==
    \A k \in 1..Len(ws) :
        ((i < k /\ k < j) \/ (j < k /\ k < i)) =>
            \/ Setting(ws[k]) = "none"
            \/ Setting(ws[k]) \notin {Setting(ws[i]), Setting(ws[j])}

(***************************************************************************)
(* C17 as stated: exchanging two words of /proc/cmdline that carry         *)
(* different keys, among systemd.default=, systemd.log_target=,            *)
(* systemd.log_level= and the runlevel words, never changes the            *)
(* configuration parse_proc_cmdline leaves.                                *)
(***************************************************************************)
C17_DifferentKeysCommute ==
    pc = "log_parse_environment" =>
        \A i, j \in 1..Len(proc_cmdline.words) :
            LET ki == Key(proc_cmdline.words[i])
                kj == Key(proc_cmdline.words[j])
            IN  (ki # kj /\ ki # "none" /\ kj # "none") =>
                    CfgNow = parse_proc_cmdline_words(Swap(proc_cmdline.words, i, j),
                                                      CfgAtEntry)

(***************************************************************************)
(* C17, amended: each setting (default unit, log target, log level) is     *)
(* what the last word that writes it makes of it, where systemd.default=   *)
(* and the runlevel words write the same setting and a log word whose      *)
(* value does not parse writes none; a setting that no word writes is left *)
(* as it was.  Exchanging two words that write different settings leaves   *)
(* the configuration unchanged when no word between them writes a setting  *)
(* that one of the two writes.                                             *)
(***************************************************************************)
C17_DifferentSettingsCommute ==
    pc = "log_parse_environment" =>
        LET ws == proc_cmdline.words
        IN  /\ \A i, j \in 1..Len(ws) :
                   (Setting(ws[i]) # Setting(ws[j]) /\ NoneBetweenWritesSame(ws, i, j)) =>
                       CfgNow = parse_proc_cmdline_words(Swap(ws, i, j), CfgAtEntry)
            /\ \A f \in Settings :
                   LET S == {k \in 1..Len(ws) : Setting(ws[k]) = f}
                   IN  CfgNow[f] =
                           IF S = {} THEN CfgAtEntry[f]
                           ELSE parse_proc_cmdline_word(ws[Last(S)], TRUE, CfgAtEntry)[f]

\* parse_proc_cmdline has returned on a line of three words: a runlevel
\* word and a systemd.log_level= word that parses, not next to each other,
\* with a word between them that writes the log target.
C17_Witness ==
    /\ pc = "log_parse_environment"
    /\ Len(proc_cmdline.words) = 3
    /\ \E i, j \in {1, 3} :
           /\ Key(proc_cmdline.words[i]) = "runlevel"
           /\ Setting(proc_cmdline.words[j]) = "log_max_level"
    /\ Setting(proc_cmdline.words[2]) = "log_target"
    /\ log_max_level # UNSET
    /\ log_target # UNSET

====
